---- MODULE Spec2Model ----
(***************************************************************************)
(* String analyzer service (src/server.js): an in-memory, content-addressed *)
(* store of string analyses behind five HTTP handlers, a filter            *)
(* validator/applier (filterData) and a natural-language front end.        *)
(*                                                                         *)
(* Strings are sequences of one-character strings, so that length, case    *)
(* folding, trimming, substring search, percent-decoding and integer       *)
(* parsing are computed the way the JavaScript computes them.              *)
(***************************************************************************)
EXTENDS Integers, Sequences, FiniteSets, TLC

VARIABLES stringDatabase, llmDebugMode, pending, pre, resp

vars == <<stringDatabase, llmDebugMode, pending, pre, resp>>

(***************************************************************************)
(* Bounds of the model.                                                    *)
(***************************************************************************)
\* largest number of records the store holds in the model
MaxStore == 2
\* longest raw filter string enumerated over the numeric/character alphabets
MaxRawLen == 3
\* natural-language requests suspended at the external call at one time
MaxPending == 1

(***************************************************************************)
(* Characters.                                                             *)
(***************************************************************************)
LowerChars == <<"a","b","c","d","e","f","g","h","i","j","k","l","m",
                "n","o","p","q","r","s","t","u","v","w","x","y","z">>
UpperChars == <<"A","B","C","D","E","F","G","H","I","J","K","L","M",
                "N","O","P","Q","R","S","T","U","V","W","X","Y","Z">>
DigitChars == <<"0","1","2","3","4","5","6","7","8","9">>

Range(f) == {f[i] : i \in DOMAIN f}
IndexOf(seq, c) == CHOOSE i \in DOMAIN seq : seq[i] = c

IsLower(c) == c \in Range(LowerChars)
IsUpper(c) == c \in Range(UpperChars)
IsDigit(c) == c \in Range(DigitChars)
\* the characters matched by /[a-z0-9]/
IsLowerAlnum(c) == IsLower(c) \/ IsDigit(c)
\* the only member of the \s / trim() whitespace class used by the model
IsWhitespace(c) == c = " "

\* String.prototype.toLowerCase, one character
CharToLower(c) == IF IsUpper(c) THEN LowerChars[IndexOf(UpperChars, c)] ELSE c
\* String.prototype.toLowerCase
ToLowerCase(s) == [i \in DOMAIN s |-> CharToLower(s[i])]

\* ASCII code of a character of the model's alphabet
CharCode(c) ==
    IF IsUpper(c) THEN 64 + IndexOf(UpperChars, c)
    ELSE IF IsLower(c) THEN 96 + IndexOf(LowerChars, c)
    ELSE IF IsDigit(c) THEN 47 + IndexOf(DigitChars, c)
    ELSE IF c = " " THEN 32
    ELSE IF c = "!" THEN 33
    ELSE IF c = "%" THEN 37
    ELSE IF c = "-" THEN 45
    ELSE IF c = "." THEN 46
    ELSE 63

AlphabetChars ==
    Range(LowerChars) \cup Range(UpperChars) \cup Range(DigitChars)
        \cup {" ", "!", "%", "-", "."}

\* String.prototype.trim
RECURSIVE TrimStart(_)
TrimStart(s) ==
    IF Len(s) > 0 /\ IsWhitespace(Head(s)) THEN TrimStart(Tail(s)) ELSE s
RECURSIVE TrimEnd(_)
TrimEnd(s) ==
    IF Len(s) > 0 /\ IsWhitespace(s[Len(s)])
    THEN TrimEnd(SubSeq(s, 1, Len(s) - 1)) ELSE s
Trim(s) == TrimEnd(TrimStart(s))

\* String.prototype.charAt(0): the empty string when there is no character
CharAt0(s) == IF Len(s) > 0 THEN <<s[1]>> ELSE <<>>

\* String.prototype.includes
Includes(s, sub) ==
    \E i \in 0..(Len(s) - Len(sub)) : SubSeq(s, i + 1, i + Len(sub)) = sub

Reverse(s) == [i \in DOMAIN s |-> s[Len(s) + 1 - i]]

(***************************************************************************)
(* analyzeString (src/server.js:49-71).                                    *)
(***************************************************************************)
\* crypto.createHash('sha256').update(value).digest('hex'): a digest of the
\* exact characters, collision-free on the strings of the model.  server.js
\* never requires 'crypto'; the name is taken to be bound to Node's crypto
\* module, as the call expects.
RECURSIVE sha256(_)
sha256(value) ==
    IF Len(value) = 0 THEN 0
    ELSE sha256(SubSeq(value, 1, Len(value) - 1)) * 128 + CharCode(value[Len(value)])

\* value.toLowerCase().replace(/[^a-z0-9]/g, '')
normalizedValue(value) == SelectSeq(ToLowerCase(value), IsLowerAlnum)

\* value.split(/\s+/).filter(word => word.length > 0).length
wordCount(value) ==
    Cardinality({i \in DOMAIN value :
        /\ ~IsWhitespace(value[i])
        /\ (i = 1 \/ IsWhitespace(value[i - 1]))})

\* the loop that builds character_frequency_map
characterFrequencyMap(normalized) ==
    [c \in Range(normalized) |->
        Cardinality({i \in DOMAIN normalized : normalized[i] = c})]

analyzeString(value) ==
    LET normalized == normalizedValue(value)
        freq == characterFrequencyMap(normalized)
    IN  [length |-> Len(value),
         is_palindrome |-> (normalized = Reverse(normalized)),
         unique_characters |-> Cardinality(DOMAIN freq),
         word_count |-> wordCount(value),
         sha256_hash |-> sha256(value),
         character_frequency_map |-> freq]

(***************************************************************************)
(* JavaScript built-ins the handlers call.                                 *)
(***************************************************************************)
\* a number as parseInt returns it: NaN, or an integer
NaN == [isNaN |-> TRUE, value |-> 0]
Num(n) == [isNaN |-> FALSE, value |-> n]
URIError == [ok |-> FALSE]

IsHexDigit(c) == IsDigit(c) \/ c \in {"a","b","c","d","e","f","A","B","C","D","E","F"}
HexVal(c) ==
    IF IsDigit(c) THEN IndexOf(DigitChars, c) - 1
    ELSE 9 + IndexOf(LowerChars, CharToLower(c))

\* the character with an ASCII code; "?" stands for one outside the alphabet
CharFromCode(n) ==
    IF \E c \in AlphabetChars : CharCode(c) = n
    THEN CHOOSE c \in AlphabetChars : CharCode(c) = n
    ELSE "?"

\* decodeURIComponent: every %XX escape becomes the byte it names; a "%" not
\* followed by two hex digits, or a byte >= 0x80 with no valid continuation
\* bytes (none fits in the strings of the model), throws URIError
RECURSIVE decodeURIComponent(_)
decodeURIComponent(s) ==
    IF Len(s) = 0 THEN [ok |-> TRUE, value |-> <<>>]
    ELSE IF Head(s) # "%"
    THEN LET rest == decodeURIComponent(Tail(s))
         IN  IF rest.ok THEN [ok |-> TRUE, value |-> <<Head(s)>> \o rest.value]
             ELSE URIError
    ELSE IF Len(s) < 3 \/ ~IsHexDigit(s[2]) \/ ~IsHexDigit(s[3]) THEN URIError
    ELSE LET byte == 16 * HexVal(s[2]) + HexVal(s[3])
             rest == decodeURIComponent(SubSeq(s, 4, Len(s)))
         IN  IF byte >= 128 \/ ~rest.ok THEN URIError
             ELSE [ok |-> TRUE, value |-> <<CharFromCode(byte)>> \o rest.value]

\* Number.prototype.toString for an integer
RECURSIVE DecimalDigits(_)
DecimalDigits(n) ==
    IF n < 10 THEN <<DigitChars[n + 1]>>
    ELSE DecimalDigits(n \div 10) \o <<DigitChars[(n % 10) + 1]>>

\* String(x) for the raw values a filter map can carry
StringOf(raw) ==
    IF raw.t = "string" THEN raw.v
    ELSE IF raw.t = "boolean"
    THEN (IF raw.v THEN <<"t","r","u","e">> ELSE <<"f","a","l","s","e">>)
    ELSE IF raw.v < 0 THEN <<"-">> \o DecimalDigits(-raw.v)
    ELSE DecimalDigits(raw.v)

\* the longest prefix of s made of digits of the radix
RECURSIVE DigitPrefix(_, _)
DigitPrefix(s, radix) ==
    IF Len(s) > 0 /\ IsHexDigit(Head(s)) /\ HexVal(Head(s)) < radix
    THEN <<Head(s)>> \o DigitPrefix(Tail(s), radix)
    ELSE <<>>

RECURSIVE DigitsValue(_, _)
DigitsValue(s, radix) ==
    IF Len(s) = 0 THEN 0
    ELSE DigitsValue(SubSeq(s, 1, Len(s) - 1), radix) * radix + HexVal(s[Len(s)])

\* the digits of an unsigned numeral: after an optional 0x/0X prefix
\* (radix 16) the longest prefix of digits of the radix
HasHexPrefix(s) == Len(s) >= 2 /\ s[1] = "0" /\ s[2] \in {"x", "X"}
ParseUnsigned(s) ==
    IF HasHexPrefix(s)
    THEN [digits |-> DigitPrefix(SubSeq(s, 3, Len(s)), 16), radix |-> 16]
    ELSE [digits |-> DigitPrefix(s, 10), radix |-> 10]

HasSign(s) == Len(s) > 0 /\ Head(s) \in {"-", "+"}
IsNegative(s) == Len(s) > 0 /\ Head(s) = "-"

ParseSigned(s, u) ==
    IF Len(u.digits) = 0 THEN NaN
    ELSE IF IsNegative(s) THEN Num(0 - DigitsValue(u.digits, u.radix))
    ELSE Num(DigitsValue(u.digits, u.radix))

ParseIntString(s) == ParseSigned(s, ParseUnsigned(IF HasSign(s) THEN Tail(s) ELSE s))

\* parseInt(x) with no radix: String(x), leading whitespace skipped, an
\* optional sign, an optional 0x/0X prefix (radix 16), then the longest
\* prefix of digits; NaN when that prefix is empty
parseInt(raw) == ParseIntString(TrimStart(StringOf(raw)))

(***************************************************************************)
(* filterData (src/server.js:74-186): validation, then filtering.          *)
(***************************************************************************)
\* {}
EmptyObject == [k \in {} |-> TRUE]

RecognizedFilters ==
    {"is_palindrome", "min_length", "max_length", "word_count", "contains_character"}

\* filters.k !== undefined
Has(filters, k) == k \in DOMAIN filters

\* parsedFilters.k = v
SetFilter(acc, k, v) == [acc EXCEPT !.parsedFilters = (k :> v) @@ @]

\* a faulty variant of PushError: only the first error is kept
PushErrorFirstOnly(acc, msg) ==
    IF Len(acc.errors) = 0 THEN [acc EXCEPT !.errors = <<msg>>] ELSE acc

\* errors.push(msg)
PushError(acc, msg) == [acc EXCEPT !.errors = Append(@, msg)]

STrue == <<"t","r","u","e">>
SFalse == <<"f","a","l","s","e">>

\* lines 80-89
ParseIsPalindrome(filters, acc) ==
    IF ~Has(filters, "is_palindrome") THEN acc
    ELSE LET raw == filters["is_palindrome"]
             val == ToLowerCase(StringOf(raw))
         IN  IF val = STrue \/ (raw.t = "boolean" /\ raw.v)
             THEN SetFilter(acc, "is_palindrome", TRUE)
             ELSE IF val = SFalse \/ (raw.t = "boolean" /\ ~raw.v)
             THEN SetFilter(acc, "is_palindrome", FALSE)
             ELSE PushError(acc, "is_palindrome must be true or false")

\* lines 91-98
ParseMinLength(filters, acc) ==
    IF ~Has(filters, "min_length") THEN acc
    ELSE LET num == parseInt(filters["min_length"])
         IN  IF num.isNaN \/ num.value < 0
             THEN PushError(acc, "min_length must be a non-negative integer")
             ELSE SetFilter(acc, "min_length", num.value)

\* lines 100-107
ParseMaxLength(filters, acc) ==
    IF ~Has(filters, "max_length") THEN acc
    ELSE LET num == parseInt(filters["max_length"])
         IN  IF num.isNaN \/ num.value < 0
             THEN PushError(acc, "max_length must be a non-negative integer")
             ELSE SetFilter(acc, "max_length", num.value)

\* lines 109-116
ParseWordCount(filters, acc) ==
    IF ~Has(filters, "word_count") THEN acc
    ELSE LET num == parseInt(filters["word_count"])
         IN  IF num.isNaN \/ num.value < 1
             THEN PushError(acc, "word_count must be a positive integer")
             ELSE SetFilter(acc, "word_count", num.value)

\* a faulty variant of FirstChar: the first character without the trim
FirstCharUntrimmed(char) == CharAt0(ToLowerCase(char))

\* char.toLowerCase().trim().charAt(0)
FirstChar(char) == CharAt0(Trim(ToLowerCase(char)))

\* firstChar.match(/[a-z0-9]/)
MatchesLowerAlnum(s) == \E i \in DOMAIN s : IsLowerAlnum(s[i])

\* lines 118-136
ParseContainsCharacter(filters, acc) ==
    IF ~Has(filters, "contains_character") THEN acc
    ELSE LET char == StringOf(filters["contains_character"])
         IN  IF Len(char) # 1
             THEN IF Len(char) > 1
                  THEN LET firstChar == FirstChar(char)
                       IN  IF MatchesLowerAlnum(firstChar)
                           THEN SetFilter(acc, "contains_character", firstChar)
                           ELSE PushError(acc,
                                "contains_character could not be simplified to a single character")
                  ELSE PushError(acc, "contains_character must be a single character string")
             ELSE SetFilter(acc, "contains_character", ToLowerCase(char))

\* lines 75-136: the five fields in the order of the code
FieldOrder ==
    <<"is_palindrome", "min_length", "max_length", "word_count", "contains_character">>

ParseField(k, filters, acc) ==
    CASE k = "is_palindrome" -> ParseIsPalindrome(filters, acc)
      [] k = "min_length" -> ParseMinLength(filters, acc)
      [] k = "max_length" -> ParseMaxLength(filters, acc)
      [] k = "word_count" -> ParseWordCount(filters, acc)
      [] k = "contains_character" -> ParseContainsCharacter(filters, acc)

RECURSIVE ValidateFrom(_, _, _)
ValidateFrom(i, filters, acc) ==
    IF i > Len(FieldOrder) THEN acc
    ELSE ValidateFrom(i + 1, filters, ParseField(FieldOrder[i], filters, acc))

ValidateFilters(filters) ==
    ValidateFrom(1, filters, [parsedFilters |-> EmptyObject, errors |-> <<>>])

\* a faulty variant of MinLengthOk: an exclusive lower bound
MinLengthOkExclusive(item, n) == item.properties.length > n

\* line 158
MinLengthOk(item, n) == item.properties.length >= n

\* line 181: character_frequency_map[char] !== undefined
HasCharacter(item, char) ==
    Len(char) = 1 /\ char[1] \in DOMAIN item.properties.character_frequency_map

\* lines 146-183: the five filters applied one after the other
ApplyFilters(data, pf) ==
    LET d1 == IF Has(pf, "is_palindrome")
              THEN SelectSeq(data,
                     LAMBDA item : item.properties.is_palindrome = pf["is_palindrome"])
              ELSE data
        d2 == IF Has(pf, "min_length")
              THEN SelectSeq(d1, LAMBDA item : MinLengthOk(item, pf["min_length"]))
              ELSE d1
        d3 == IF Has(pf, "max_length")
              THEN SelectSeq(d2, LAMBDA item : item.properties.length <= pf["max_length"])
              ELSE d2
        d4 == IF Has(pf, "word_count")
              THEN SelectSeq(d3, LAMBDA item : item.properties.word_count = pf["word_count"])
              ELSE d3
        d5 == IF Has(pf, "contains_character")
              THEN SelectSeq(d4, LAMBDA item : HasCharacter(item, pf["contains_character"]))
              ELSE d4
    IN  d5

filterData(data, filters) ==
    LET acc == ValidateFilters(filters)
    IN  IF Len(acc.errors) > 0
        THEN [error |-> TRUE, status |-> 400, details |-> acc.errors]
        ELSE [error |-> FALSE, data |-> ApplyFilters(data, acc.parsedFilters),
              parsedFilters |-> acc.parsedFilters]

(***************************************************************************)
(* The store: stringDatabase, a JavaScript object used as a map.  It is    *)
(* modelled as the sequence of its entries [k |-> key, v |-> record] in    *)
(* property order, which for these keys is insertion order.                *)
(***************************************************************************)
\* stringDatabase[id], tested for truthiness
HasKey(db, id) == \E i \in DOMAIN db : db[i].k = id

\* stringDatabase[id]
Lookup(db, id) == db[CHOOSE i \in DOMAIN db : db[i].k = id].v

\* stringDatabase[id] = result: an existing property keeps its place
PutRecord(db, id, result) ==
    IF HasKey(db, id)
    THEN [i \in DOMAIN db |-> IF db[i].k = id THEN [k |-> id, v |-> result] ELSE db[i]]
    ELSE Append(db, [k |-> id, v |-> result])

\* delete stringDatabase[id]
DeleteKey(db, id) == SelectSeq(db, LAMBDA e : e.k # id)

\* Object.values(stringDatabase)
ObjectValues(db) == [i \in DOMAIN db |-> db[i].v]

\* Object.keys(x).length === 0
IsEmptyObject(x) == DOMAIN x = {}

(***************************************************************************)
(* Inputs of the requests.                                                 *)
(***************************************************************************)
S(v) == [t |-> "string", v |-> v]
N(v) == [t |-> "number", v |-> v]
B(v) == [t |-> "boolean", v |-> v]
Undefined == [t |-> "undefined"]

\* string values clients store: "%41", "A", "b a"
Values == {<<"%","4","1">>, <<"A">>, <<"b"," ","a">>}

\* req.params.stringValue of DELETE /strings/:stringValue: the stored values
\* and "a%"
DeleteValues == Values \cup {<<"a","%">>}

\* req.body.value of POST /strings
InsertBodies == {Undefined, N(1)} \cup {S(v) : v \in Values}

\* new Date().toISOString(): two instants
Timestamps == {0, 1}

\* ids asked of GET /strings/:id
RequestedIds == {sha256(v) : v \in Values} \cup {0}

\* req.query of GET /strings
ListFilters ==
    { EmptyObject,
      [is_palindrome |-> S(STrue)],
      [min_length |-> S(<<"3">>)],
      [max_length |-> S(<<"2">>)],
      [word_count |-> S(<<"2">>)],
      [contains_character |-> S(<<"A">>)],
      [is_palindrome |-> S(STrue), word_count |-> S(<<"1">>)],
      [min_length |-> S(<<"1">>), max_length |-> S(<<"3">>),
       contains_character |-> S(<<"a">>)],
      [min_length |-> S(<<"-","1">>), word_count |-> S(<<"0">>)],
      [is_palindrome |-> S(SFalse), min_length |-> S(<<"9">>)],
      [foo |-> S(<<"1">>)] }

Q_single == <<"s","i","n","g","l","e"," ","w","o","r","d"," ","p","a","l","i","n","d","r","o","m","i","c">>
Q_Single == <<"S","i","n","g","l","e"," ","W","o","r","d"," ","P","a","l","i","n","d","r","o","m","i","c">>
Q_two == <<"t","w","o"," ","w","o","r","d","s">>
Q_TwoAnd == <<"T","w","o"," ","W","o","r","d","s"," ","a","n","d">>
Q_twoand == <<"t","w","o"," ","w","o","r","d","s"," ","a","n","d">>
Q_wordand == <<"w","o","r","d"," ","a","n","d">>
Q_long == <<"l","o","n","g">>

\* req.query.query of GET /strings/filter-by-natural-language; <<>> is a
\* missing or empty parameter
Queries == {Q_single, Q_Single, Q_two, Q_TwoAnd, Q_twoand, Q_wordand, Q_long, <<>>}

\* with the live API the text only feeds the heuristic of line 327
LiveQueries == {Q_wordand, Q_long, <<>>}

\* what the live API call can end in: a thrown error, a reply with no
\* content, text that is not JSON, or a JSON object
LlmObjects == {EmptyObject, [word_count |-> N(2)], [min_length |-> N(-1)]}
LlmOutcomes ==
    {[kind |-> "error"], [kind |-> "no_content"], [kind |-> "unparsable"]}
        \cup {[kind |-> "json", parsed |-> o] : o \in LlmObjects}

(***************************************************************************)
(* The handlers.                                                           *)
(***************************************************************************)
Response(op, arg, status, body) ==
    [op |-> op, arg |-> arg, status |-> status, body |-> body]

\* a mutation of the store is seen by every suspended request
MarkMutated(ps) == {[p EXCEPT !.mutated = TRUE] : p \in ps}

\* a faulty variant of RecordId: the digest of the normalized value
RecordIdNormalized(value, properties) == sha256(normalizedValue(value))

\* line 200
RecordId(value, properties) == properties.sha256_hash

\* a faulty variant of Exists: the store is looked up by the value (stringDatabase[value]),
\* a key it never has
ExistsByValue(db, value, id) == FALSE

\* line 202: if (stringDatabase[id])
Exists(db, value, id) == HasKey(db, id)

\* POST /strings (lines 190-214)
Insert(body, t) ==
    /\ pre' = stringDatabase
    /\ UNCHANGED llmDebugMode
    /\ IF body.t = "undefined"
       THEN /\ resp' = Response("insert", body, 400, [kind |-> "missing"])
            /\ UNCHANGED <<stringDatabase, pending>>
       ELSE IF body.t # "string"
       THEN /\ resp' = Response("insert", body, 422, [kind |-> "not_string"])
            /\ UNCHANGED <<stringDatabase, pending>>
       ELSE LET value == body.v
                properties == analyzeString(value)
                id == RecordId(value, properties)
                result == [id |-> id, value |-> value, properties |-> properties,
                           created_at |-> t]
            IN  IF Exists(stringDatabase, value, id)
                THEN /\ resp' = Response("insert", body, 409,
                                         [kind |-> "conflict", id |-> id])
                     /\ UNCHANGED <<stringDatabase, pending>>
                ELSE /\ Len(stringDatabase) < MaxStore
                     /\ stringDatabase' = PutRecord(stringDatabase, id, result)
                     /\ pending' = MarkMutated(pending)
                     /\ resp' = Response("insert", body, 201,
                                         [kind |-> "created", record |-> result])

\* DELETE /strings/:stringValue (lines 358-378); rawStringValue is
\* req.params.stringValue, which the router has already percent-decoded.
\* A URIError thrown by the second decoding ends the request with status 500.
Delete(rawStringValue) ==
    /\ pre' = stringDatabase
    /\ UNCHANGED llmDebugMode
    /\ LET decoded == decodeURIComponent(rawStringValue)
       IN  IF ~decoded.ok
           THEN /\ resp' = Response("delete", rawStringValue, 500, [kind |-> "uri_error"])
                /\ UNCHANGED <<stringDatabase, pending>>
           ELSE LET idToDelete == analyzeString(decoded.value).sha256_hash
                IN  IF ~HasKey(stringDatabase, idToDelete)
                    THEN /\ resp' = Response("delete", rawStringValue, 404,
                                             [kind |-> "not_found"])
                         /\ UNCHANGED <<stringDatabase, pending>>
                    ELSE /\ stringDatabase' = DeleteKey(stringDatabase, idToDelete)
                         /\ pending' = MarkMutated(pending)
                         /\ resp' = Response("delete", rawStringValue, 204,
                                             [kind |-> "deleted"])

\* GET /strings/:id (lines 382-391)
Get(requestedHash) ==
    /\ pre' = stringDatabase
    /\ UNCHANGED <<stringDatabase, llmDebugMode, pending>>
    /\ IF ~HasKey(stringDatabase, requestedHash)
       THEN resp' = Response("get", requestedHash, 404, [kind |-> "not_found"])
       ELSE resp' = Response("get", requestedHash, 200,
                             [kind |-> "found",
                              record |-> Lookup(stringDatabase, requestedHash)])

\* GET /strings (lines 218-231)
List(filters) ==
    /\ pre' = stringDatabase
    /\ UNCHANGED <<stringDatabase, llmDebugMode, pending>>
    /\ LET validationResult == filterData(ObjectValues(stringDatabase), filters)
       IN  IF validationResult.error
           THEN resp' = Response("list", filters, validationResult.status,
                                 [kind |-> "invalid",
                                  details |-> validationResult.details])
           ELSE resp' = Response("list", filters, 200,
                                 [kind |-> "ok",
                                  data |-> validationResult.data,
                                  count |-> Len(validationResult.data),
                                  filters_applied |-> validationResult.parsedFilters])

\* lines 248-254: the simulated interpretation of LLM_DEBUG_MODE
DebugFilters(userQuery) ==
    IF Includes(userQuery, <<"s","i","n","g","l","e"," ","w","o","r","d">>)
       /\ Includes(userQuery, <<"p","a","l","i","n","d","r","o","m","i","c">>)
    THEN [word_count |-> N(1), is_palindrome |-> B(TRUE)]
    ELSE IF Includes(userQuery, <<"t","w","o"," ","w","o","r","d","s">>)
    THEN [word_count |-> N(2)]
    ELSE EmptyObject

\* a faulty variant of IsConflictingQuery: the test for an empty object is dropped
IsConflictingQueryAnyMap(parsedFilters, userQuery) ==
    /\ Includes(ToLowerCase(userQuery), <<"a","n","d">>)
    /\ Includes(ToLowerCase(userQuery), <<"w","o","r","d">>)

\* line 327
IsConflictingQuery(parsedFilters, userQuery) ==
    /\ IsEmptyObject(parsedFilters)
    /\ Includes(ToLowerCase(userQuery), <<"a","n","d">>)
    /\ Includes(ToLowerCase(userQuery), <<"w","o","r","d">>)

\* a faulty variant of NLRecords: a list cached from before the last mutation
NLRecordsStale(db, before) == ObjectValues(before)

\* line 337: Object.values(stringDatabase), read after the external call
NLRecords(db, before) == ObjectValues(db)

\* lines 326-353: what the handler answers once the text is interpreted
NLAnswer(userQuery, parsedFilters) ==
    IF IsConflictingQuery(parsedFilters, userQuery)
    THEN Response("nl", userQuery, 422, [kind |-> "conflict", raw |-> parsedFilters])
    ELSE LET validationResult == filterData(NLRecords(stringDatabase, pre), parsedFilters)
         IN  IF validationResult.error
             THEN Response("nl", userQuery, 400,
                           [kind |-> "invalid", raw |-> parsedFilters,
                            details |-> validationResult.details])
             ELSE Response("nl", userQuery, 200,
                           [kind |-> "ok", raw |-> parsedFilters,
                            data |-> validationResult.data,
                            count |-> Len(validationResult.data),
                            parsed_filters |-> validationResult.parsedFilters])

\* GET /strings/filter-by-natural-language with LLM_DEBUG_MODE = true
\* (lines 235-254, 326-353): no await is reached, the handler is one step
NLDebug(userQuery) ==
    /\ llmDebugMode
    /\ pre' = stringDatabase
    /\ UNCHANGED <<stringDatabase, llmDebugMode, pending>>
    /\ IF Len(userQuery) = 0
       THEN resp' = Response("nl", userQuery, 400, [kind |-> "missing"])
       ELSE resp' = NLAnswer(userQuery, DebugFilters(userQuery))

\* the same handler with LLM_DEBUG_MODE = false, up to the await of line 294
NLStart(userQuery) ==
    /\ ~llmDebugMode
    /\ UNCHANGED <<stringDatabase, llmDebugMode>>
    /\ IF Len(userQuery) = 0
       THEN /\ pre' = stringDatabase
            /\ resp' = Response("nl", userQuery, 400, [kind |-> "missing"])
            /\ UNCHANGED pending
       ELSE /\ Cardinality(pending) < MaxPending
            /\ [userQuery |-> userQuery, mutated |-> FALSE] \notin pending
            /\ pending' = pending \cup {[userQuery |-> userQuery, mutated |-> FALSE]}
            /\ UNCHANGED <<pre, resp>>

\* ... and from the await on (lines 300-353)
NLResume(p, outcome) ==
    /\ ~llmDebugMode
    /\ p \in pending
    /\ pending' = pending \ {p}
    /\ pre' = stringDatabase
    /\ UNCHANGED <<stringDatabase, llmDebugMode>>
    /\ IF outcome.kind = "error"
       THEN resp' = Response("nl", p.userQuery, 500, [kind |-> "upstream_error"])
       ELSE IF outcome.kind = "no_content"
       THEN resp' = Response("nl", p.userQuery, 400, [kind |-> "no_content"])
       ELSE IF outcome.kind = "unparsable"
       THEN resp' = Response("nl", p.userQuery, 400, [kind |-> "unparsable"])
       ELSE resp' = [NLAnswer(p.userQuery, outcome.parsed) EXCEPT
                        !.body = @ @@ [suspended |-> TRUE, mutated |-> p.mutated]]

(***************************************************************************)
(* Specifications.                                                         *)
(***************************************************************************)
NoResponse == Response("none", <<>>, 0, [kind |-> "none"])

\* line 11
LLM_DEBUG_MODE == TRUE

\* the server as shipped: LLM_DEBUG_MODE = true
Init ==
    /\ stringDatabase = <<>>
    /\ llmDebugMode = LLM_DEBUG_MODE
    /\ pending = {}
    /\ pre = <<>>
    /\ resp = NoResponse

Next ==
    \/ \E body \in InsertBodies, t \in Timestamps : Insert(body, t)
    \/ \E v \in DeleteValues : Delete(v)
    \/ \E id \in RequestedIds : Get(id)
    \/ \E f \in ListFilters : List(f)
    \/ \E q \in Queries : NLDebug(q)

Spec == Init /\ [][Next]_vars

\* the server with LLM_DEBUG_MODE set to false ("to use the live Gemini API")
InitLive ==
    /\ stringDatabase = <<>>
    /\ llmDebugMode = ~LLM_DEBUG_MODE
    /\ pending = {}
    /\ pre = <<>>
    /\ resp = NoResponse

NextLive ==
    \/ \E body \in InsertBodies, t \in Timestamps : Insert(body, t)
    \/ \E v \in DeleteValues : Delete(v)
    \/ \E f \in ListFilters : List(f)
    \/ \E q \in LiveQueries : NLStart(q)
    \/ \E p \in pending, o \in LlmOutcomes : NLResume(p, o)

SpecLive == InitLive /\ [][NextLive]_vars

(***************************************************************************)
(* filterData alone: GET /strings over a fixed store, its query drawn from *)
(* a wide set of raw filter maps.                                          *)
(***************************************************************************)
StringsUpTo(chars, n) == UNION {[1..m -> chars] : m \in 0..n}

\* raw strings for min_length, max_length and word_count
NumeralStrings == StringsUpTo({"0", "1", "-", "x", " "}, MaxRawLen)
\* raw strings for contains_character
CharacterStrings == StringsUpTo({"a", "Z", " ", "!", "5"}, MaxRawLen)

IntegerFilters == {"min_length", "max_length", "word_count"}

RawNumbers == {N(0 - 1), N(0), N(1), N(12)}
RawPalindromes ==
    {S(STrue), S(<<"T","R","U","E">>), S(SFalse), S(<<"F","a","l","s","e">>),
     S(<<"y","e","s">>), S(<<>>), B(TRUE), B(FALSE), N(1)}

\* one recognized key
SingleFilters ==
    {(k :> S(v)) : k \in IntegerFilters, v \in NumeralStrings}
        \cup {(k :> n) : k \in IntegerFilters, n \in RawNumbers}
        \cup {("contains_character" :> S(v)) : v \in CharacterStrings}
        \cup {("contains_character" :> x) : x \in {N(5), N(12), B(TRUE)}}
        \cup {("is_palindrome" :> x) : x \in RawPalindromes}

\* several keys at once, each valid or invalid, with or without a key that
\* filterData does not know
GoodRaw ==
    [is_palindrome |-> S(<<"T","r","u","e">>), min_length |-> S(<<"1">>),
     max_length |-> N(3), word_count |-> S(<<"1">>),
     contains_character |-> S(<<"A">>), foo |-> S(<<"-","1">>)]
BadRaw ==
    [is_palindrome |-> S(<<"y","e","s">>), min_length |-> S(<<"-","1">>),
     max_length |-> S(<<"x">>), word_count |-> N(0),
     contains_character |-> S(<<>>), foo |-> S(<<"-","1">>)]
CombinedFilters ==
    UNION {{[k \in D |-> IF k \in Bad THEN BadRaw[k] ELSE GoodRaw[k]] :
               Bad \in SUBSET (D \cap RecognizedFilters)} :
           D \in SUBSET (RecognizedFilters \cup {"foo"})}

CompileFilters == SingleFilters \cup CombinedFilters

StoredRecord(value, t) ==
    [k |-> sha256(value),
     v |-> [id |-> sha256(value), value |-> value,
            properties |-> analyzeString(value), created_at |-> t]]

\* the store after POST /strings of "A" and of "b a", and one GET /strings
\* request received with any of the raw filter maps
InitCompile ==
    /\ stringDatabase = <<StoredRecord(<<"A">>, 0), StoredRecord(<<"b"," ","a">>, 1)>>
    /\ llmDebugMode = LLM_DEBUG_MODE
    /\ pending = {}
    /\ pre = stringDatabase
    /\ resp \in {Response("request", f, 0, [kind |-> "none"]) : f \in CompileFilters}

\* the request is served
NextCompile == resp.op = "request" /\ List(resp.arg)

SpecCompile == InitCompile /\ [][NextCompile]_vars

(***************************************************************************)
(* Properties.  resp is the last response sent and pre the store as it was *)
(* when the step that sent it began.                                       *)
(***************************************************************************)
IsOk == resp.body.kind = "ok"
IsInvalid == resp.body.kind = "invalid"
Details == IF IsInvalid THEN Range(resp.body.details) ELSE {}
\* the typed filters a successful query reports
Typed == IF resp.op = "list" THEN resp.body.filters_applied ELSE resp.body.parsed_filters

\* a record satisfies every predicate of a typed filter set
Matches(item, pf) ==
    /\ Has(pf, "is_palindrome") => item.properties.is_palindrome = pf["is_palindrome"]
    /\ Has(pf, "min_length") => item.properties.length >= pf["min_length"]
    /\ Has(pf, "max_length") => item.properties.length <= pf["max_length"]
    /\ Has(pf, "word_count") => item.properties.word_count = pf["word_count"]
    /\ Has(pf, "contains_character") =>
          pf["contains_character"][1] \in DOMAIN item.properties.character_frequency_map

\* C1: every record of the store sits under the key that is its id, its
\* properties.sha256_hash and the digest of its value, and no two records of
\* the store have the same value.
C1_StoreKeyedByContent ==
    /\ \A i \in DOMAIN stringDatabase :
          LET e == stringDatabase[i]
          IN  /\ e.v.id = e.k
              /\ e.v.properties.sha256_hash = e.k
              /\ sha256(e.v.value) = e.k
    /\ \A i, j \in DOMAIN stringDatabase :
          stringDatabase[i].v.value = stringDatabase[j].v.value => i = j

\* two records are stored, the second one just created after a delete or not
C1_Witness ==
    /\ Len(stringDatabase) >= 2
    /\ resp.op = "insert"
    /\ resp.status = 201

C3_DeleteByValue ==
    resp.op = "delete" =>
        LET id == sha256(resp.arg)
        IN  IF HasKey(pre, id)
            THEN /\ resp.status = 204
                 /\ stringDatabase = DeleteKey(pre, id)
            ELSE /\ resp.status = 404
                 /\ stringDatabase = pre

IntegerMessage(k) ==
    CASE k = "min_length" -> "min_length must be a non-negative integer"
      [] k = "max_length" -> "max_length must be a non-negative integer"
      [] k = "word_count" -> "word_count must be a positive integer"
LowerLimit(k) == IF k = "word_count" THEN 1 ELSE 0

\* a string that is wholly an integer numeral: an optional "-", then digits
IsIntegerNumeral(s) ==
    /\ Len(s) >= 1
    /\ LET d == IF s[1] = "-" THEN Tail(s) ELSE s
       IN  Len(d) >= 1 /\ \A i \in DOMAIN d : IsDigit(d[i])
NumeralValue(s) ==
    IF s[1] = "-" THEN 0 - DigitsValue(Tail(s), 10) ELSE DigitsValue(s, 10)
RawIsInteger(raw) ==
    raw.t = "number" \/ (raw.t = "string" /\ IsIntegerNumeral(raw.v))
RawInteger(raw) == IF raw.t = "number" THEN raw.v ELSE NumeralValue(raw.v)

\* C4: min_length, max_length and word_count are accepted exactly when the
\* raw value is an integer, or a string that is wholly an integer numeral,
\* in range (>= 0, or >= 1 for word_count); the typed value is that integer.
C4_IntegerFieldsStrict ==
    resp.op = "list" =>
        \A k \in IntegerFilters \cap DOMAIN resp.arg :
            LET raw == resp.arg[k]
                good == RawIsInteger(raw) /\ RawInteger(raw) >= LowerLimit(k)
            IN  /\ good <=> IntegerMessage(k) \notin Details
                /\ (good /\ IsOk) => Typed[k] = RawInteger(raw)

CharacterMessages ==
    {"contains_character could not be simplified to a single character",
     "contains_character must be a single character string"}
CharacterRejected == Details \cap CharacterMessages # {}
IsAsciiAlnum(c) == IsLower(c) \/ IsUpper(c) \/ IsDigit(c)

\* C5 as claimed: a raw contains_character of length 1 is accepted as that
\* character lowercased; one of length > 1 is accepted, as its first
\* character lowercased, exactly when that first character is an ASCII
\* letter or digit; one of length 0 is rejected.
C5_FirstCharacterRule ==
    (resp.op = "list" /\ Has(resp.arg, "contains_character")) =>
        LET c == StringOf(resp.arg["contains_character"])
        IN  IF Len(c) = 1
            THEN /\ ~CharacterRejected
                 /\ IsOk => Typed["contains_character"] = ToLowerCase(c)
            ELSE IF Len(c) > 1
            THEN /\ ~CharacterRejected <=> IsAsciiAlnum(c[1])
                 /\ (IsOk /\ IsAsciiAlnum(c[1])) =>
                        Typed["contains_character"] = <<CharToLower(c[1])>>
            ELSE CharacterRejected

\* C5 as the code has it: a raw contains_character of length 1 is accepted
\* as that character lowercased; one of length > 1 is lowercased and
\* stripped of the whitespace around it, and is accepted, as the first
\* character of what is left, exactly when that character is an ASCII letter
\* or digit (nothing left: rejected); one of length 0 is rejected.
C5_FirstCharacterAfterTrim ==
    (resp.op = "list" /\ Has(resp.arg, "contains_character")) =>
        LET c == StringOf(resp.arg["contains_character"])
            stripped == Trim(ToLowerCase(c))
            reducible == Len(stripped) > 0 /\ IsAsciiAlnum(stripped[1])
        IN  IF Len(c) = 1
            THEN /\ ~CharacterRejected
                 /\ IsOk => Typed["contains_character"] = ToLowerCase(c)
            ELSE IF Len(c) > 1
            THEN /\ ~CharacterRejected <=> reducible
                 /\ (IsOk /\ reducible) =>
                        Typed["contains_character"] = <<stripped[1]>>
            ELSE CharacterRejected

\* a raw value that begins with whitespace has been accepted
C5_Witness ==
    /\ resp.op = "list"
    /\ Has(resp.arg, "contains_character")
    /\ Len(StringOf(resp.arg["contains_character"])) > 1
    /\ IsWhitespace(StringOf(resp.arg["contains_character"])[1])
    /\ IsOk
    /\ Typed["contains_character"] = <<"a">>

\* a recognized key whose value, alone in a map, does not validate
InvalidAlone(k, raw) == filterData(<<>>, (k :> raw)).error

\* C6: the recognized keys of a raw map are validated one by one: with k of
\* them invalid, k > 0, the answer is InvalidFilter (400) with exactly k
\* messages and no records; with none invalid the typed filters are exactly
\* the recognized keys of the map.  Other keys change nothing.
C6_CompileAllOrNothing ==
    resp.op = "list" =>
        LET present == RecognizedFilters \cap DOMAIN resp.arg
            bad == {k \in present : InvalidAlone(k, resp.arg[k])}
        IN  IF bad # {}
            THEN /\ IsInvalid
                 /\ resp.status = 400
                 /\ Len(resp.body.details) = Cardinality(bad)
                 /\ Cardinality(Details) = Cardinality(bad)
                 /\ "data" \notin DOMAIN resp.body
            ELSE /\ IsOk
                 /\ DOMAIN Typed = present

\* all five recognized keys invalid beside an unknown key
C6_Witness ==
    /\ resp.op = "list"
    /\ Has(resp.arg, "foo")
    /\ IsInvalid
    /\ Len(resp.body.details) = 5

\* C7: a successful list or natural-language query returns, in store order,
\* exactly the stored records that satisfy every typed predicate, its count
\* is their number, no filter at all returns every record, and the store is
\* not changed.
C7_QueryReturnsMatching ==
    (resp.op \in {"list", "nl"} /\ IsOk) =>
        /\ resp.status = 200
        /\ resp.body.data = SelectSeq(ObjectValues(pre), LAMBDA item : Matches(item, Typed))
        /\ resp.body.count = Len(resp.body.data)
        /\ DOMAIN Typed = {} => resp.body.data = ObjectValues(pre)
        /\ stringDatabase = pre

\* two predicates select one of two stored records
C7_Witness ==
    /\ resp.op = "list"
    /\ IsOk
    /\ Cardinality(DOMAIN Typed) >= 2
    /\ Len(resp.body.data) = 1
    /\ Len(stringDatabase) = 2

\* the interpretation the substring rules give on the lowercased text
LowercasedRules(userQuery) ==
    LET text == ToLowerCase(userQuery)
    IN  IF Includes(text, <<"s","i","n","g","l","e"," ","w","o","r","d">>)
           /\ Includes(text, <<"p","a","l","i","n","d","r","o","m","i","c">>)
        THEN [word_count |-> N(1), is_palindrome |-> B(TRUE)]
        ELSE IF Includes(text, <<"t","w","o"," ","w","o","r","d","s">>)
        THEN [word_count |-> N(2)]
        ELSE EmptyObject

\* C8: in debug mode the raw filter map of a natural-language request is
\* what the substring rules give on the lowercased text.
C8_RulesOnLowercasedText ==
    (resp.op = "nl" /\ llmDebugMode /\ resp.body.kind \in {"ok", "invalid", "conflict"}) =>
        resp.body.raw = LowercasedRules(resp.arg)

HasConflictMarkers(userQuery) ==
    /\ Includes(ToLowerCase(userQuery), <<"a","n","d">>)
    /\ Includes(ToLowerCase(userQuery), <<"w","o","r","d">>)

\* C9: a natural-language request with a text answers ConflictingFilters
\* (422) exactly when the interpreted map is empty and the lowercased text
\* contains "and" and "word", and then returns no records; otherwise the map
\* is compiled, and an empty map returns every stored record.
C9_ConflictHeuristic ==
    (resp.op = "nl" /\ Len(resp.arg) > 0) =>
        /\ resp.body.kind \in {"ok", "invalid", "conflict"}
        /\ resp.body.kind = "conflict" <=>
              (IsEmptyObject(resp.body.raw) /\ HasConflictMarkers(resp.arg))
        /\ resp.body.kind = "conflict" =>
              (resp.status = 422 /\ "data" \notin DOMAIN resp.body)
        /\ resp.body.kind = "invalid" => filterData(<<>>, resp.body.raw).error
        /\ (IsOk /\ IsEmptyObject(resp.body.raw)) =>
              (resp.status = 200 /\ resp.body.data = ObjectValues(pre))

\* a text with both markers whose map is not empty was compiled and applied
C9_Witness ==
    /\ resp.op = "nl"
    /\ HasConflictMarkers(resp.arg)
    /\ IsOk
    /\ ~IsEmptyObject(resp.body.raw)

\* C10: the records of a successful list or natural-language response are
\* those of the store at the instant of the response: none that is absent
\* from it, every one of it that matches, and that store is still the store.
C10_SnapshotAtResponse ==
    (resp.op \in {"list", "nl"} /\ IsOk) =>
        /\ Range(resp.body.data) \subseteq Range(ObjectValues(pre))
        /\ \A r \in Range(ObjectValues(pre)) :
              r \in Range(resp.body.data) <=> Matches(r, Typed)
        /\ Len(resp.body.data) = Cardinality(Range(resp.body.data))
        /\ stringDatabase = pre

\* a request resumed after the store was changed under it returns a record
C10_Witness ==
    /\ resp.op = "nl"
    /\ IsOk
    /\ resp.body.mutated
    /\ Len(resp.body.data) > 0

====
